---- MODULE Spec2Model ----
(***************************************************************************)
(* Model of the KHQR payment bot (src/Bakong@Wing.py).                     *)
(*                                                                         *)
(* Threads: the background thread running check_and_cleanup_transactions  *)
(* (Sched) and the bot's handler threads (Workers), each of which runs    *)
(* one handler at a time: generate_khqr_payment (/pay) or                  *)
(* handle_confirm_payment (the 'Confirm Payment' button).  Every call of  *)
(* the Bakong client (khqr_client.check_payment) and of the Telegram bot  *)
(* (bot.send_message, bot.delete_message, bot.edit_message_caption) is a  *)
(* step of its own, whose outcome (a status, success, or an exception) is *)
(* chosen by the environment.  A `with transaction_lock:` block that only *)
(* reads or writes active_transactions is one step, taken when the lock   *)
(* is free; a block that calls the bot holds the lock across its steps.   *)
(* Consecutive calls of the Bakong client and of the bot between which    *)
(* the thread neither reads nor writes active_transactions are one step:  *)
(* they change nothing another thread can see.                             *)
(*                                                                         *)
(* Not modelled: the replies of /start and /help, the argument errors of  *)
(* /pay (they touch no shared state), and the length of time.sleep.       *)
(***************************************************************************)
EXTENDS Integers, Sequences, FiniteSets, TLC

\* ---------------------------------------------------------------- constants
EXPIRATION_SECONDS == 300
CONFIRM_CALLBACK_PREFIX == <<"confirm_">>
\* bot = telebot.TeleBot(BOT_TOKEN): threaded, with the library's default pool
\* of two handler threads
NumWorkers == 2

\* ------------------------------------------------------------------- bounds
\* the clock stops at MaxTime
MaxTime == 600
\* number of /pay requests that reach send_photo
MaxPays == 2
\* the per-bill counters of sent notifications saturate at MaxCount
MaxCount == 2

Sched == 0
Workers == 1..NumWorkers
Threads == {Sched} \cup Workers

\* the instants of the model's clock: it advances by EXPIRATION_SECONDS
Times == {k * EXPIRATION_SECONDS : k \in 0..(MaxTime \div EXPIRATION_SECONDS)}

\* the k-th /pay request the users send: every request comes from a chat of
\* its own, for an amount of its own
PayRequest(k) == [chat_id |-> k, amount |-> 5000 * k]

VARIABLES
  now,                     \* time.time()
  active_transactions,     \* the dict, as the sequence of its items in insertion order
  transaction_lock,        \* the set of threads holding the lock (at most one)
  pc,                      \* pc[t]: the statement thread t executes next
  data,                    \* data[t]: the record thread t works on (its local copy)
  payment_status,          \* payment_status[t]: local of check_payment_status: "PAID",
                           \* "UNPAID" (any other status) or "none" (unbound)
  call,                    \* call[w]: the callback query worker w handles
  current_time,            \* local of check_and_cleanup_transactions
  items_to_check,          \* the rest of the snapshot the scheduler iterates over
  transactions_to_remove,  \* local of check_and_cleanup_transactions
  next_message_id,         \* the message_id Telegram gives to the next QR photo
  buttons,                 \* the 'Confirm Payment' buttons the users can press
  paidSent,                \* paidSent[b]: PAID success messages delivered for bill b
  expiredSent              \* expiredSent[b]: EXPIRED messages delivered for bill b

vars == <<now, active_transactions, transaction_lock, pc, data, payment_status, call,
          current_time, items_to_check, transactions_to_remove, next_message_id,
          buttons, paidSent, expiredSent>>

\* ------------------------------------------------------------------ helpers
\* bill_number = f"TRX{int(time.time() * 1000)}"
BillNumber(t) == <<"TRX", t * 1000>>

Bills == {BillNumber(t) : t \in Times}

\* khqr_client.generate_md5(khqr_client.create_qr(amount=..., bill_number=..., ...))
GenerateMd5(bill, amount) == <<"md5", bill, amount>>

\* callback_data = f"{CONFIRM_CALLBACK_PREFIX}{bill_number}"
CallbackData(bill) == CONFIRM_CALLBACK_PREFIX \o bill

\* call.data[len(CONFIRM_CALLBACK_PREFIX):]
StripPrefix(cbdata) == SubSeq(cbdata, Len(CONFIRM_CALLBACK_PREFIX) + 1, Len(cbdata))

NoRecord == [bill_number |-> <<>>, md5_hash |-> <<>>, chat_id |-> 0,
             expiry_time |-> 0, message_id |-> 0]

NoCallback == [data |-> <<>>]

\* the keys of the dict
Keys(d) == {d[i].bill_number : i \in 1..Len(d)}

\* d[bill]
Get(d, bill) == d[CHOOSE i \in 1..Len(d) : d[i].bill_number = bill]

\* del d[bill]
Del(d, bill) == SelectSeq(d, LAMBDA r : r.bill_number # bill)

\* d[rec.bill_number] = rec: a new key goes last, an existing key keeps its place
Put(d, rec) ==
  IF rec.bill_number \in Keys(d)
    THEN [i \in 1..Len(d) |-> IF d[i].bill_number = rec.bill_number THEN rec ELSE d[i]]
    ELSE Append(d, rec)

\* for key in keys: if key in d: del d[key]
DelAll(d, keys) == SelectSeq(d, LAMBDA r : \A i \in 1..Len(keys) : keys[i] # r.bill_number)

Bump(c) == IF c < MaxCount THEN c + 1 ELSE c

\* the statement the scheduler's for loop reaches with `items` left to iterate
\* over (lines 121-147): expiry first (with bot.delete_message of the QR message
\* when there is one, lines 132-136), then the payment check
LoopPc(items) ==
  IF items = <<>> THEN "s_cleanup"
  ELSE IF Head(items).expiry_time < current_time THEN "s_expired_send" ELSE "cps_check"

LoopData(items) == IF items = <<>> THEN NoRecord ELSE Head(items)

LoopRest(items) == IF items = <<>> THEN <<>> ELSE Tail(items)

\* ---------------------------------------------------------------------- Init
Init ==
  /\ now = 0
  /\ active_transactions = <<>>
  /\ transaction_lock = {}
  /\ pc = [t \in Threads |-> IF t = Sched THEN "s_snapshot" ELSE "idle"]
  /\ data = [t \in Threads |-> NoRecord]
  /\ payment_status = [t \in Threads |-> "none"]
  /\ call = [w \in Workers |-> NoCallback]
  /\ current_time = 0
  /\ items_to_check = <<>>
  /\ transactions_to_remove = <<>>
  /\ next_message_id = 1
  /\ buttons = {}
  /\ paidSent = [b \in Bills |-> 0]
  /\ expiredSent = [b \in Bills |-> 0]

\* --------------------------------------------------------------- environment
\* time passes
Tick ==
  /\ now + EXPIRATION_SECONDS <= MaxTime
  /\ now' = now + EXPIRATION_SECONDS
  /\ UNCHANGED <<active_transactions, transaction_lock, pc, data, payment_status, call,
                 current_time, items_to_check, transactions_to_remove, next_message_id,
                 buttons, paidSent, expiredSent>>


\* --------------------------------------------------- check_payment_status
\* `return` of check_payment_status in thread t: the scheduler goes on with its
\* for loop (lines 148-150), handle_confirm_payment with line 320
CpsReturn(t, confirmed) ==
  IF t = Sched
    THEN /\ transactions_to_remove' =
              IF confirmed THEN Append(transactions_to_remove, data[t].bill_number)
                           ELSE transactions_to_remove
         /\ pc' = [pc EXCEPT ![t] = LoopPc(items_to_check)]
         /\ data' = [data EXCEPT ![t] = LoopData(items_to_check)]
         /\ items_to_check' = LoopRest(items_to_check)
         /\ call' = call
    ELSE /\ UNCHANGED <<transactions_to_remove, items_to_check>>
         /\ IF confirmed
              THEN /\ pc' = [pc EXCEPT ![t] = "idle"]
                   /\ data' = [data EXCEPT ![t] = NoRecord]
                   /\ call' = [call EXCEPT ![t] = NoCallback]
              ELSE /\ pc' = [pc EXCEPT ![t] = "m_unpaid"]
                   /\ UNCHANGED <<data, call>>

\* payment_status once check_payment_status has returned `confirmed` to thread
\* t: handle_confirm_payment goes on to its UNPAID feedback after False
StatusAfter(t, confirmed, status) ==
  IF t # Sched /\ ~confirmed THEN status ELSE "none"

\* the statement check_payment_status reaches after an exception (lines 97-104):
\* bot.send_message of the check error; delivered or not, return False follows
CpsExcept(t, status, ok) ==
  IF ok THEN /\ pc' = [pc EXCEPT ![t] = "cps_error_sent"]
             /\ payment_status' = [payment_status EXCEPT ![t] = status]
             /\ UNCHANGED <<data, call, items_to_check, transactions_to_remove>>
        ELSE /\ payment_status' =
                  [payment_status EXCEPT ![t] = StatusAfter(t, FALSE, status)]
             /\ CpsReturn(t, FALSE)

\* CpsCheck with a bug: a status other than "PAID" retires the record too
CpsCheck_UnpaidRemoves(t) ==
  /\ pc[t] = "cps_check"
  /\ \/ /\ payment_status' = [payment_status EXCEPT ![t] = "PAID"]
        /\ paidSent' = [paidSent EXCEPT ![data[t].bill_number] = Bump(@)]
        /\ pc' = [pc EXCEPT ![t] = "cps_remove"]
        /\ UNCHANGED <<data, call, items_to_check, transactions_to_remove,
                       active_transactions>>
     \/ /\ UNCHANGED <<paidSent, active_transactions>>
        /\ \E ok \in BOOLEAN : CpsExcept(t, "PAID", ok)
     \/ /\ UNCHANGED paidSent
        /\ active_transactions' = Del(active_transactions, data[t].bill_number)
        /\ payment_status' = [payment_status EXCEPT ![t] = StatusAfter(t, FALSE, "UNPAID")]
        /\ CpsReturn(t, FALSE)
     \/ /\ UNCHANGED <<paidSent, active_transactions>>
        /\ \E ok \in BOOLEAN : CpsExcept(t, "none", ok)
  /\ UNCHANGED <<now, transaction_lock, current_time, next_message_id, buttons,
                 expiredSent>>

\* lines 64-84, 93-95: payment_status = khqr_client.check_payment(md5_hash).
\* "PAID": bot.delete_message of the QR message when there is one (a failure is
\* only printed), then bot.send_message of the success text, whose exception
\* goes to line 97; another status: return False; an exception of
\* check_payment goes to line 97
CpsCheck(t) ==
  /\ pc[t] = "cps_check"
  /\ \/ \* "PAID", the success text delivered
        /\ payment_status' = [payment_status EXCEPT ![t] = "PAID"]
        /\ paidSent' = [paidSent EXCEPT ![data[t].bill_number] = Bump(@)]
        /\ pc' = [pc EXCEPT ![t] = "cps_remove"]
        /\ UNCHANGED <<data, call, items_to_check, transactions_to_remove>>
     \/ \* "PAID", bot.send_message of the success text raises
        /\ UNCHANGED paidSent
        /\ \E ok \in BOOLEAN : CpsExcept(t, "PAID", ok)
     \/ \* another status
        /\ UNCHANGED paidSent
        /\ payment_status' = [payment_status EXCEPT ![t] = StatusAfter(t, FALSE, "UNPAID")]
        /\ CpsReturn(t, FALSE)
     \/ \* khqr_client.check_payment raises
        /\ UNCHANGED paidSent
        /\ \E ok \in BOOLEAN : CpsExcept(t, "none", ok)
  /\ UNCHANGED <<now, active_transactions, transaction_lock, current_time,
                 next_message_id, buttons, expiredSent>>

\* CpsRemove with a bug: return True without deleting the record
CpsRemove_KeepsRecord(t) ==
  /\ pc[t] = "cps_remove"
  /\ transaction_lock = {}
  /\ payment_status' = [payment_status EXCEPT ![t] = StatusAfter(t, TRUE, @)]
  /\ CpsReturn(t, TRUE)
  /\ UNCHANGED <<now, active_transactions, transaction_lock, current_time,
                 next_message_id, buttons, paidSent, expiredSent>>

\* lines 87-92: with transaction_lock: if bill_number in active_transactions:
\* del active_transactions[bill_number]; return True
CpsRemove(t) ==
  /\ pc[t] = "cps_remove"
  /\ transaction_lock = {}
  /\ active_transactions' = Del(active_transactions, data[t].bill_number)
  /\ payment_status' = [payment_status EXCEPT ![t] = StatusAfter(t, TRUE, @)]
  /\ CpsReturn(t, TRUE)
  /\ UNCHANGED <<now, transaction_lock, current_time, next_message_id, buttons,
                 paidSent, expiredSent>>

\* line 104: return False, the check error message delivered
CpsErrorSent(t) ==
  /\ pc[t] = "cps_error_sent"
  /\ payment_status' = [payment_status EXCEPT ![t] = StatusAfter(t, FALSE, @)]
  /\ CpsReturn(t, FALSE)
  /\ UNCHANGED <<now, active_transactions, transaction_lock, current_time,
                 next_message_id, buttons, paidSent, expiredSent>>

\* ------------------------------------------ check_and_cleanup_transactions
\* lines 117-128: with transaction_lock: items_to_check =
\* list(active_transactions.items()), and the for loop reaches its first item
SchedSnapshot ==
  /\ pc[Sched] = "s_snapshot"
  /\ transaction_lock = {}
  /\ pc' = [pc EXCEPT ![Sched] = LoopPc(active_transactions)]
  /\ data' = [data EXCEPT ![Sched] = LoopData(active_transactions)]
  /\ items_to_check' = LoopRest(active_transactions)
  /\ UNCHANGED <<now, active_transactions, transaction_lock, payment_status, call,
                 current_time, transactions_to_remove, next_message_id, buttons,
                 paidSent, expiredSent>>

\* SchedExpiredSend with a bug: a failure of bot.send_message is ignored and
\* the record is marked for removal all the same
SchedExpiredSend_IgnoresFailure ==
  /\ pc[Sched] = "s_expired_send"
  /\ \E ok \in BOOLEAN :
       /\ expiredSent' = IF ok THEN [expiredSent EXCEPT ![data[Sched].bill_number] = Bump(@)]
                               ELSE expiredSent
       /\ transactions_to_remove' =
            Append(transactions_to_remove, data[Sched].bill_number)
       /\ pc' = [pc EXCEPT ![Sched] = LoopPc(items_to_check)]
       /\ data' = [data EXCEPT ![Sched] = LoopData(items_to_check)]
       /\ items_to_check' = LoopRest(items_to_check)
  /\ UNCHANGED <<now, active_transactions, transaction_lock, payment_status, call,
                 current_time, next_message_id, buttons, paidSent>>

\* lines 138-143: bot.send_message of the expiry text, outside any try: an
\* exception ends the thread; otherwise transactions_to_remove.append; continue
SchedExpiredSend ==
  /\ pc[Sched] = "s_expired_send"
  /\ \E ok \in BOOLEAN :
       /\ IF ok
            THEN /\ expiredSent' = [expiredSent EXCEPT ![data[Sched].bill_number] = Bump(@)]
                 /\ transactions_to_remove' =
                      Append(transactions_to_remove, data[Sched].bill_number)
                 /\ pc' = [pc EXCEPT ![Sched] = LoopPc(items_to_check)]
                 /\ data' = [data EXCEPT ![Sched] = LoopData(items_to_check)]
                 /\ items_to_check' = LoopRest(items_to_check)
            ELSE /\ pc' = [pc EXCEPT ![Sched] = "crashed"]
                 /\ data' = [data EXCEPT ![Sched] = NoRecord]
                 /\ items_to_check' = <<>>
                 /\ transactions_to_remove' = <<>>
                 /\ UNCHANGED expiredSent
  /\ UNCHANGED <<now, active_transactions, transaction_lock, payment_status, call,
                 current_time, next_message_id, buttons, paidSent>>

\* SchedCleanup with a bug: the pass ends without removing what it marked
SchedCleanup_RemovesNothing ==
  /\ pc[Sched] = "s_cleanup"
  /\ transaction_lock = {}
  /\ pc' = [pc EXCEPT ![Sched] = "s_sleep"]
  /\ UNCHANGED <<now, active_transactions, transaction_lock, data, payment_status,
                 call, current_time, items_to_check, transactions_to_remove,
                 next_message_id, buttons, paidSent, expiredSent>>

\* lines 153-158: with transaction_lock: for key in transactions_to_remove:
\* if key in active_transactions: del active_transactions[key]
SchedCleanup ==
  /\ pc[Sched] = "s_cleanup"
  /\ transaction_lock = {}
  /\ active_transactions' = DelAll(active_transactions, transactions_to_remove)
  /\ pc' = [pc EXCEPT ![Sched] = "s_sleep"]
  /\ UNCHANGED <<now, transaction_lock, data, payment_status, call, current_time,
                 items_to_check, transactions_to_remove, next_message_id, buttons,
                 paidSent, expiredSent>>

\* lines 161, 113-114: time.sleep(CHECK_INTERVAL_SECONDS) returns and the while
\* loop goes on: current_time = time.time(); transactions_to_remove = []
SchedSleep ==
  /\ pc[Sched] = "s_sleep"
  /\ current_time' = now
  /\ transactions_to_remove' = <<>>
  /\ pc' = [pc EXCEPT ![Sched] = "s_snapshot"]
  /\ UNCHANGED <<now, active_transactions, transaction_lock, data, payment_status, call,
                 items_to_check, next_message_id, buttons, paidSent, expiredSent>>

\* -------------------------------------------------- generate_khqr_payment
\* the handler ends: worker w is free for the next update
HandlerDone(w) ==
  /\ pc' = [pc EXCEPT ![w] = "idle"]
  /\ data' = [data EXCEPT ![w] = NoRecord]
  /\ payment_status' = [payment_status EXCEPT ![w] = "none"]
  /\ call' = [call EXCEPT ![w] = NoCallback]

\* lines 186-260: /pay with a valid amount: bill_number and expiry_time from the
\* clock, the QR and its md5, and bot.send_photo of the QR with the button.
\* (When a call of these lines raises, the handler replies and ends without
\* touching active_transactions.)
Pay(w) ==
  /\ pc[w] = "idle"
  /\ next_message_id <= MaxPays
  /\ now + EXPIRATION_SECONDS <= MaxTime
  /\ LET req == PayRequest(next_message_id)
         bill_number == BillNumber(now)
         rec == [bill_number |-> bill_number,
                 md5_hash |-> GenerateMd5(bill_number, req.amount),
                 chat_id |-> req.chat_id,
                 expiry_time |-> now + EXPIRATION_SECONDS,
                 message_id |-> next_message_id]
     IN /\ data' = [data EXCEPT ![w] = rec]
        /\ buttons' = buttons \cup {[data |-> CallbackData(bill_number)]}
  /\ next_message_id' = next_message_id + 1
  /\ pc' = [pc EXCEPT ![w] = "p_insert"]
  /\ UNCHANGED <<now, active_transactions, transaction_lock, payment_status, call,
                 current_time, items_to_check, transactions_to_remove, paidSent,
                 expiredSent>>

\* lines 263-269: with transaction_lock: active_transactions[bill_number] = {...}
PayInsert(w) ==
  /\ pc[w] = "p_insert"
  /\ transaction_lock = {}
  /\ active_transactions' = Put(active_transactions, data[w])
  /\ HandlerDone(w)
  /\ UNCHANGED <<now, transaction_lock, current_time, items_to_check,
                 transactions_to_remove, next_message_id, buttons, paidSent,
                 expiredSent>>

\* ------------------------------------------------- handle_confirm_payment
\* bill_number = call.data[len(CONFIRM_CALLBACK_PREFIX):]
CallBill(w) == StripPrefix(call[w].data)

\* lines 284-315: a user presses a button: bot.answer_callback_query, then
\* with transaction_lock: if bill_number not in active_transactions: the
\* not-tracked branch, inside the with block; else read the record and leave
\* the block
Click(w, btn) ==
  /\ pc[w] = "idle"
  /\ transaction_lock = {}
  /\ call' = [call EXCEPT ![w] = btn]
  /\ LET bill_number == StripPrefix(btn.data)
     IN IF bill_number \notin Keys(active_transactions)
          THEN /\ pc' = [pc EXCEPT ![w] = "m_not_tracked"]
               /\ transaction_lock' = {w}
               /\ UNCHANGED data
          ELSE /\ data' = [data EXCEPT ![w] = Get(active_transactions, bill_number)]
               /\ pc' = [pc EXCEPT ![w] = "cps_check"]
               /\ UNCHANGED transaction_lock
  /\ UNCHANGED <<now, active_transactions, payment_status, current_time,
                 items_to_check, transactions_to_remove, next_message_id, buttons,
                 paidSent, expiredSent>>

\* NotTracked with a bug: the branch announces the bill as expired with the
\* expiry text of the scheduler
NotTracked_SendsExpired(w) ==
  /\ pc[w] = "m_not_tracked"
  /\ expiredSent' = [expiredSent EXCEPT ![StripPrefix(call[w].data)] = Bump(@)]
  /\ transaction_lock' = {}
  /\ pc' = [pc EXCEPT ![w] = "idle"]
  /\ data' = [data EXCEPT ![w] = NoRecord]
  /\ payment_status' = [payment_status EXCEPT ![w] = "none"]
  /\ call' = [call EXCEPT ![w] = NoCallback]
  /\ UNCHANGED <<now, active_transactions, current_time, items_to_check,
                 transactions_to_remove, next_message_id, buttons, paidSent>>

\* NotTracked with a bug: the handler ends without releasing transaction_lock
NotTracked_KeepsLock(w) ==
  /\ pc[w] = "m_not_tracked"
  /\ HandlerDone(w)
  /\ UNCHANGED <<now, active_transactions, transaction_lock, current_time,
                 items_to_check, transactions_to_remove, next_message_id, buttons,
                 paidSent, expiredSent>>

\* lines 293-309: bot.edit_message_caption of the pressed message (a failure is
\* only printed), then bot.send_message of the not-tracked text; return (or
\* the exception of send_message) leaves the with block
NotTracked(w) ==
  /\ pc[w] = "m_not_tracked"
  /\ transaction_lock' = {}
  /\ HandlerDone(w)
  /\ UNCHANGED <<now, active_transactions, current_time, items_to_check,
                 transactions_to_remove, next_message_id, buttons, paidSent, expiredSent>>

\* lines 320-339: if not payment_confirmed: bot.edit_message_caption with the
\* UNPAID status (a failure is only printed), then bot.send_message of the
\* not-yet-paid text
Unpaid(w) ==
  /\ pc[w] = "m_unpaid"
  /\ HandlerDone(w)
  /\ UNCHANGED <<now, active_transactions, transaction_lock, current_time,
                 items_to_check, transactions_to_remove, next_message_id, buttons,
                 paidSent, expiredSent>>

\* -------------------------------------------------------------- specification
Next ==
  \/ Tick
  \/ SchedSnapshot
  \/ SchedExpiredSend
  \/ SchedCleanup
  \/ SchedSleep
  \/ \E t \in Threads : CpsCheck(t)
  \/ \E t \in Threads : CpsRemove(t)
  \/ \E t \in Threads : CpsErrorSent(t)
  \/ \E w \in Workers : Pay(w)
  \/ \E w \in Workers : PayInsert(w)
  \/ \E w \in Workers, btn \in buttons : Click(w, btn)
  \/ \E w \in Workers : NotTracked(w)
  \/ \E w \in Workers : Unpaid(w)

Spec == Init /\ [][Next]_vars

\* time advances; the scheduler thread keeps running (its calls return and its
\* sleep ends), and it gets transaction_lock when the lock is released again and
\* again; a handler that holds the lock across its calls of the bot
\* (lines 290-309) leaves the block, as these calls return
Fairness ==
  /\ WF_vars(Tick)
  /\ WF_vars(SchedSleep \/ SchedExpiredSend \/ CpsCheck(Sched) \/ CpsErrorSent(Sched))
  /\ SF_vars(SchedSnapshot \/ SchedCleanup \/ CpsRemove(Sched))
  /\ WF_vars(\E w \in Workers : NotTracked(w))

LiveSpec == Init /\ [][Next]_vars /\ Fairness

\* ------------------------------------------------------------------- claims
\* thread t takes up a record in this step: the scheduler's for loop reaches it,
\* or handle_confirm_payment has read it from active_transactions
TakesUp(t) ==
  /\ pc'[t] \in {"cps_check", "s_expired_send"}
  /\ pc[t] \notin {"cps_check", "s_expired_send"} \/ data'[t] # data[t]

\* C1: for every bill, in every interleaving of the scheduler pass and the
\* manual checks, at most one outcome notification (PAID success message or
\* EXPIRED message) is ever sent.
C1_AtMostOneOutcome ==
  \A b \in Bills : paidSent[b] + expiredSent[b] <= 1

\* C2: a reconciliation attempt that takes up a record whose expiry time has
\* passed (for the scheduler: at the pass's reading of the clock; for a manual
\* check: at the time of the check) makes no call of khqr_client.check_payment
\* for it: it goes to the EXPIRED outcome.
C2_ExpiredNeverChecked ==
  [][\A t \in Threads :
       (TakesUp(t) /\ data'[t].expiry_time < (IF t = Sched THEN current_time' ELSE now'))
         => pc'[t] = "s_expired_send"]_vars

\* C3: a thread that holds a copy of a record that is no longer in
\* active_transactions sends no PAID notification for it, even when the Oracle
\* answers PAID.
C3_StaleCopyIsNoOp ==
  [][\A t \in Threads :
       (pc[t] = "cps_check" /\ data[t].bill_number \notin Keys(active_transactions))
         => /\ pc'[t] # "cps_remove"
            /\ paidSent' = paidSent]_vars

\* C4: no bill ever gets both a PAID notification and an EXPIRED notification.
C4_OneTerminalOutcome ==
  \A b \in Bills : ~(paidSent[b] > 0 /\ expiredSent[b] > 0)

\* C5: when khqr_client.check_payment raises during a scheduler pass, no
\* message is sent to the user: the scheduler never stands behind a delivered
\* check-error message with payment_status unbound.
C5_SchedulerSilentOnOracleFailure ==
  ~(pc[Sched] = "cps_error_sent" /\ payment_status[Sched] = "none")

\* C6: handle_confirm_payment gives its UNPAID feedback (the caption edit and
\* the not-yet-paid message of lines 320-339) only when
\* khqr_client.check_payment returned a status other than "PAID": not after
\* check_payment raised, and not after "PAID".
C6_UnpaidFeedbackOnlyWhenUnpaid ==
  \A w \in Workers : pc[w] = "m_unpaid" => payment_status[w] = "UNPAID"

\* C7: a failure of bot.send_message does not keep a record whose outcome is
\* reached: when check_payment_status returns after the Oracle answered "PAID"
\* and the success text could not be sent, the record is out of
\* active_transactions, and so it is when the expiry text of a record the
\* scheduler has seen expired could not be sent.
C7_RetiredDespiteNotifierFailure ==
  [][/\ \A t \in Threads :
          (pc[t] = "cps_error_sent" /\ payment_status[t] = "PAID" /\ pc'[t] # pc[t])
            => data[t].bill_number \notin Keys(active_transactions')
     /\ (pc[Sched] = "s_expired_send" /\ pc'[Sched] = "crashed")
          => data[Sched].bill_number \notin Keys(active_transactions')]_vars

\* C8: no error raised while the scheduler reconciles a record stops the
\* scheduler: its thread never ends.
C8_SchedulerNeverStops ==
  pc[Sched] # "crashed"

\* the statements that call the Bakong client or the bot
ExternalCallPcs == {"cps_check", "s_expired_send", "m_not_tracked", "m_unpaid"}

\* C9: no thread stands at a call of the Bakong client or of the bot while it
\* holds transaction_lock.
C9_NoExternalCallUnderLock ==
  \A t \in Threads : t \in transaction_lock => pc[t] \notin ExternalCallPcs

\* worker w takes a step of the not-tracked branch of handle_confirm_payment:
\* it enters the branch, or runs it to its end
NotTrackedStep(w) ==
  \/ pc[w] = "idle" /\ pc'[w] = "m_not_tracked"
  \/ pc[w] = "m_not_tracked" /\ pc'[w] # "m_not_tracked"

C11_NoOverwrite ==
  [][\A b \in Keys(active_transactions) :
       b \in Keys(active_transactions')
         => Get(active_transactions', b) = Get(active_transactions, b)]_vars

\* check_payment_status returns False to thread t straight from the payment
\* check, without a check error message: khqr_client.check_payment answered a
\* status other than "PAID" (for the scheduler, whose locals are not kept, also:
\* an exception whose check error message could not be sent)
ReturnsUnpaid(t) ==
  /\ pc[t] = "cps_check"
  /\ IF t = Sched
       THEN pc'[t] \notin {"cps_check", "cps_remove", "cps_error_sent"}
              \/ data'[t] # data[t]
       ELSE pc'[t] = "m_unpaid" /\ payment_status'[t] = "UNPAID"

LastTime == (MaxTime \div EXPIRATION_SECONDS) * EXPIRATION_SECONDS

\* C13: under Fairness, every record in active_transactions whose expiry_time
\* the clock passes is eventually out of active_transactions, whatever
\* khqr_client.check_payment answers or raises, unless bot.send_message of the
\* expiry text raised and ended the scheduler thread.
C13_EventuallyRemoved ==
  \A b \in Bills :
    (b \in Keys(active_transactions)
       /\ Get(active_transactions, b).expiry_time < LastTime)
      ~> (b \notin Keys(active_transactions) \/ pc[Sched] = "crashed")

\* C13 witness: a bill for which no PAID message was ever sent is out of
\* active_transactions after the scheduler sent its expiry text and ran its
\* cleanup.
C13_Witness ==
  \E b \in Bills :
    /\ [data |-> CallbackData(b)] \in buttons
    /\ paidSent[b] = 0
    /\ expiredSent[b] > 0
    /\ b \notin Keys(active_transactions)
    /\ pc[Sched] = "s_sleep"
    /\ now = LastTime

\* C14: an outcome message (PAID or EXPIRED) is sent for a bill only by a
\* caller that has removed the bill from active_transactions before: at the
\* step that sends the message the bill is no longer a key.
C14_RemovedBeforeNotified ==
  [][\A b \in Bills :
       (paidSent'[b] # paidSent[b] \/ expiredSent'[b] # expiredSent[b])
         => b \notin Keys(active_transactions)]_vars

\* C15: the expiry test is inclusive: a record the scheduler's for loop reaches
\* in a pass whose current_time equals the record's expiry_time goes to the
\* EXPIRED outcome, not to the payment check.
C15_InclusiveExpiry ==
  [][(TakesUp(Sched) /\ data'[Sched].expiry_time = current_time')
       => pc'[Sched] = "s_expired_send"]_vars

\* no handler thread works on bill b: none holds a record of b (read by a
\* manual check, or about to be inserted by /pay) and none handles a press of
\* b's button
OnlySched(b) ==
  \A w \in Workers : data[w].bill_number # b /\ CallBill(w) # b

C17_NeverRetiredSilently ==
  [][\A b \in Keys(active_transactions) :
       b \notin Keys(active_transactions')
         => paidSent[b] + expiredSent[b] > 0]_vars

\* C17 witness: the scheduler's cleanup has just removed a bill it had seen
\* expired, after its expiry text was sent.
C17_Witness ==
  \E i \in 1..Len(transactions_to_remove) :
    LET b == transactions_to_remove[i]
    IN /\ pc[Sched] = "s_sleep"
       /\ b \notin Keys(active_transactions)
       /\ expiredSent[b] > 0

\* C18: a record leaves active_transactions only when check_payment_status
\* returns True to a thread that got "PAID" for the record's md5_hash, or when
\* the scheduler's cleanup removes a record whose expiry_time is before the
\* pass's current_time; handle_confirm_payment never removes for expiry.
C18_NoPrematureRetirement ==
  [][\A b \in Keys(active_transactions) :
       b \notin Keys(active_transactions')
         => LET r == Get(active_transactions, b)
            IN \/ \E t \in Threads :
                    /\ pc[t] = "cps_remove" /\ pc'[t] # "cps_remove"
                    /\ data[t].md5_hash = r.md5_hash
               \/ /\ pc[Sched] = "s_cleanup" /\ pc'[Sched] = "s_sleep"
                  /\ r.expiry_time < current_time]_vars

\* the statements at which a thread requests transaction_lock
LockRequestPcs == {"s_snapshot", "s_cleanup", "cps_remove", "p_insert", "idle"}

\* C19: transaction_lock has at most one holder; a thread that holds it stands
\* in the not-tracked branch of handle_confirm_payment, not at a statement that
\* requests the lock, and its next step, which releases the lock, can be taken:
\* no thread waits for the lock for ever.
C19_LockDiscipline ==
  /\ Cardinality(transaction_lock) <= 1
  /\ \A t \in transaction_lock :
       /\ t \in Workers
       /\ pc[t] = "m_not_tracked"
       /\ pc[t] \notin LockRequestPcs
       /\ ENABLED NotTracked(t)

\* C19 witness: a handler holds transaction_lock in the not-tracked branch
\* while the scheduler and the other handler both wait for the lock.
C19_Witness ==
  \E w \in transaction_lock :
    /\ pc[Sched] \in {"s_snapshot", "s_cleanup", "cps_remove"}
    /\ \E v \in Workers \ {w} : pc[v] \in {"p_insert", "cps_remove"}

====
